---- MODULE Spec2Model ----
(***************************************************************************)
(* The fleet coordination state of server.js: the drone registry, the     *)
(* per-drone command queues, the set of web clients, the HTTP handlers,    *)
(* the WebSocket handlers and the cleanup timer.  Node runs each handler   *)
(* to completion on one thread and no handler awaits, so each handler is   *)
(* one atomic action.  server.js keeps no telemetry; the telemetry store   *)
(* is modelled after the design documents.                                 *)
(***************************************************************************)
EXTENDS Integers, Sequences, FiniteSets, TLC

\* ------------------------------------------------------------------ inputs

\* Device ids the requests may name.  The first is the id the WebSocket
\* command handler falls back to when the message names none.
DefaultDroneId == "MINI_SURV_001"
DroneIds == {DefaultDroneId, "ESP32_002"}

\* An absent (or empty) string field of a request: falsy in the handlers' tests.
Undefined == ""

\* WebSocket connection handles.
Clients == {"ws1", "ws2"}

\* ------------------------------------------------------------------ bounds

\* The clock runs from 0 to MaxClock * IntervalMs.
MaxClock == 3
\* Longest queue a run builds: an enqueue on a queue of this length is not explored.
MaxQueue == 2
\* Most telemetry samples a run records for one drone.
MaxSamples == 5

\* --------------------------------------------------------------- constants

\* Stale timeout of the cleanup timer, and the timer's period (milliseconds).
Timeout == 60000
IntervalMs == 30000
\* Battery level a new drone record gets when none is supplied.
DefaultBattery == 85

\* The queue cap and the redelivery timeout the design documents configure.
QueueCap == 1
RedeliveryTimeout == 15000
\* The capacity of a telemetry ring the design documents configure.
HistoryCapacity == 3

VARIABLES
    drones,         \* Map droneId -> record, as the sequence of its values in insertion order
    commandQueues,  \* Map droneId -> array of queued commands, as a function on its keys
    webClients,     \* Set of sockets, as the sequence of its members in insertion order
    readyState,     \* readyState of each connection handle
    now,            \* Date.now()
    delivered,      \* history: per drone, the command a poll handed it last, until the
                    \* drone acknowledges that command or leaves the registry
    reaped,         \* history: the ids the cleanup timer has deleted at some time
    last,           \* the handler that ran last and what it answered
    published,      \* the events the last handler passed to broadcastToWebClients
    wsOut,          \* the messages the last handler sent to sockets, in order
    telemetry       \* per drone, the ring of telemetry samples kept for it

vars == <<drones, commandQueues, webClients, readyState, now, delivered, reaped,
          last, published, wsOut, telemetry>>

\* ------------------------------------------------------------- JS helpers

\* A test that takes every string field for present.
FalsyNever(s) == FALSE

\* !x for a string field
Falsy(s) == s = Undefined

\* The truthiness of the battery field of a poll body, which is << >> when
\* the field is absent and <<v>> when it is present; 0 is falsy.
TruthyNum(b) == b # << >> /\ b[1] # 0

\* drones.has(k)
MapHas(m, k) == \E i \in 1..Len(m) : m[i].id = k

MapIndex(m, k) == CHOOSE i \in 1..Len(m) : m[i].id = k

\* drones.get(k)
MapGet(m, k) == m[MapIndex(m, k)]

\* A Map.set that adds an entry without looking for the key.
MapSetAppend(m, k, v) == Append(m, v)

\* drones.set(k, v): replaces the value of an existing key in place, else appends
MapSet(m, k, v) ==
    IF MapHas(m, k) THEN [m EXCEPT ![MapIndex(m, k)] = v] ELSE Append(m, v)

\* drones.delete(k)
MapDelete(m, k) ==
    LET Keep(e) == e.id # k IN SelectSeq(m, Keep)

\* new Map()
EmptyMap == [x \in {} |-> << >>]

\* commandQueues.has(k)
QHas(q, k) == k \in DOMAIN q

\* commandQueues.set(k, v)
QSet(q, k, v) == [x \in (DOMAIN q) \cup {k} |-> IF x = k THEN v ELSE q[x]]

\* commandQueues.delete(k)
QDelete(q, k) == [x \in (DOMAIN q) \ {k} |-> q[x]]

\* The keys of the registry.
DroneKeys(m) == {m[i].id : i \in 1..Len(m)}

\* A queued command: the string the code stores, with the priority field of
\* the request it came in carried along as history.
Entry(command, priority) == [command |-> command, priority |-> priority]

\* The send-command requests explored: a command with the priority field of
\* the request, which no handler reads, or no command.
Requests == {Entry("takeoff", 1), Entry("land", 5), Entry(Undefined, 1)}
BasicRequests == {Entry("takeoff", 1), Entry(Undefined, 1)}

Event(type, droneId, command) == [type |-> type, droneId |-> droneId, command |-> command]

NoClient == "null"

\* A broadcast that excludes no socket.
RECURSIVE BroadcastToAll(_, _, _, _)
BroadcastToAll(clients, rs, data, excludeWs) ==
    IF clients = << >> THEN << >>
    ELSE LET client == Head(clients)
             rest == BroadcastToAll(Tail(clients), rs, data, excludeWs)
         IN IF rs[client] = "OPEN"
            THEN <<[to |-> client, msg |-> data]>> \o rest
            ELSE rest

\* A broadcast that a socket that is not open brings to an end: the sockets
\* after it in webClients are sent nothing.
RECURSIVE BroadcastUntilClosed(_, _, _, _)
BroadcastUntilClosed(clients, rs, data, excludeWs) ==
    IF clients = << >> \/ rs[Head(clients)] # "OPEN" THEN << >>
    ELSE LET client == Head(clients)
             rest == BroadcastUntilClosed(Tail(clients), rs, data, excludeWs)
         IN IF client # excludeWs
            THEN <<[to |-> client, msg |-> data]>> \o rest
            ELSE rest

\* broadcastToWebClients(data, excludeWs): the sends it makes, in order
RECURSIVE Broadcast(_, _, _, _)
Broadcast(clients, rs, data, excludeWs) ==
    IF clients = << >> THEN << >>
    ELSE LET client == Head(clients)
             rest == Broadcast(Tail(clients), rs, data, excludeWs)
         IN IF client # excludeWs /\ rs[client] = "OPEN"
            THEN <<[to |-> client, msg |-> data]>> \o rest
            ELSE rest

\* The sends of several broadcasts made one after the other.
RECURSIVE BroadcastAll(_, _, _)
BroadcastAll(clients, rs, events) ==
    IF events = << >> THEN << >>
    ELSE Broadcast(clients, rs, Head(events), NoClient)
         \o BroadcastAll(clients, rs, Tail(events))

\* A broadcast that also deletes from webClients the sockets that are not open.
SubscribersPruned(clients, rs) ==
    LET Open(c) == rs[c] = "OPEN" IN SelectSeq(clients, Open)

\* webClients after broadcastToWebClients: the function deletes no socket
Subscribers(clients, rs) == clients

\* What a handler answered: the HTTP status (0 for a WebSocket handler, which
\* answers on the socket), and the commands handed to the drone.  existed
\* records whether droneId was in the registry when the handler started.
Reply(op, droneId, client, code, existed, commands) ==
    [op |-> op, droneId |-> droneId, client |-> client, code |-> code,
     existed |-> existed, commands |-> commands]

\* -------------------------------------------------------------------- Init

Init ==
    /\ drones = << >>
    /\ commandQueues = EmptyMap
    /\ webClients = << >>
    /\ readyState = [c \in Clients |-> "NONE"]
    /\ now = 0
    /\ delivered = [d \in DroneIds |-> Undefined]
    /\ reaped = {}
    /\ last = Reply("listen", Undefined, NoClient, 0, FALSE, << >>)
    /\ published = << >>
    /\ wsOut = << >>
    /\ telemetry = [d \in DroneIds |-> << >>]

\* ------------------------------------------------------------ HTTP handlers

\* The record register and a first poll store.
NewDrone(id, t, battery) == [id |-> id, lastSeen |-> t, battery |-> battery]

\* The queues after register: commandQueues.set(drone_id, [])
RegisterQueue(q, id) == QSet(q, id, << >>)

\* POST /api/drone/register
Register(drone_id) ==
    IF Falsy(drone_id)
    THEN /\ last' = Reply("register", drone_id, NoClient, 400, FALSE, << >>)
         /\ published' = << >>
         /\ wsOut' = << >>
         /\ UNCHANGED <<telemetry, drones, commandQueues, webClients, readyState, now, delivered, reaped>>
    ELSE LET ev == Event("drone_connected", drone_id, Undefined) IN
         /\ drones' = MapSet(drones, drone_id, NewDrone(drone_id, now, DefaultBattery))
         /\ commandQueues' = RegisterQueue(commandQueues, drone_id)
         /\ published' = <<ev>>
         /\ wsOut' = Broadcast(webClients, readyState, ev, NoClient)
         /\ webClients' = Subscribers(webClients, readyState)
         /\ last' = Reply("register", drone_id, NoClient, 200, MapHas(drones, drone_id), << >>)
         /\ UNCHANGED <<telemetry, readyState, now, delivered, reaped>>

\* A poll of an unknown id that keeps a queue already stored under that id.
PollNewQueueKeep(q, id) == IF QHas(q, id) THEN q ELSE QSet(q, id, << >>)

\* The queues after a poll has added an unknown id: commandQueues.set(droneId, [])
PollNewQueue(q, id) == QSet(q, id, << >>)

\* battery || 85
PollNewBattery(battery) == IF TruthyNum(battery) THEN battery[1] ELSE DefaultBattery

\* The record of a known drone after a poll has touched it.
PollTouch(drone, t, battery) ==
    [drone EXCEPT !.lastSeen = t,
                  !.battery = IF TruthyNum(battery) THEN battery[1] ELSE @]

\* A poll that announces the drone whether or not it was in the registry.
PollConnectedAlways(existed, droneId) == <<Event("drone_connected", droneId, Undefined)>>

\* The drone_connected event of a poll: broadcast when the poll has added the drone
PollConnected(existed, droneId) ==
    IF ~existed THEN <<Event("drone_connected", droneId, Undefined)>> ELSE << >>

\* A dequeue that takes the newest command.
DequeuePop(queue) ==
    [command |-> queue[Len(queue)], rest |-> SubSeq(queue, 1, Len(queue) - 1)]

\* A dequeue that leaves the command in the queue.
DequeuePeek(queue) == [command |-> Head(queue), rest |-> queue]

\* queue.shift(): the command taken and the queue left
Dequeue(queue) == [command |-> Head(queue), rest |-> Tail(queue)]

\* POST /api/drone/poll/:droneId
Poll(droneId, battery) ==
    LET existed == MapHas(drones, droneId)
        drones1 == IF ~existed
                   THEN MapSet(drones, droneId, NewDrone(droneId, now, PollNewBattery(battery)))
                   ELSE MapSet(drones, droneId, PollTouch(MapGet(drones, droneId), now, battery))
        queues1 == IF ~existed THEN PollNewQueue(commandQueues, droneId) ELSE commandQueues
        pub1 == PollConnected(existed, droneId)
        queue == IF QHas(queues1, droneId) THEN queues1[droneId] ELSE << >>
    IN
    /\ drones' = drones1
    /\ IF Len(queue) > 0
       THEN LET taken == Dequeue(queue)
                sent == Event("command_sent", droneId, taken.command.command)
            IN /\ commandQueues' = QSet(queues1, droneId, taken.rest)
               /\ published' = pub1 \o <<sent>>
               /\ last' = Reply("poll", droneId, NoClient, 200, existed, <<taken.command>>)
               /\ delivered' = [delivered EXCEPT ![droneId] = taken.command.command]
       ELSE /\ commandQueues' = queues1
            /\ published' = pub1
            /\ last' = Reply("poll", droneId, NoClient, 200, existed, << >>)
            /\ delivered' = delivered
    /\ wsOut' = BroadcastAll(webClients, readyState, published')
    /\ webClients' = IF published' = << >> THEN webClients
                     ELSE Subscribers(webClients, readyState)
    /\ UNCHANGED <<telemetry, readyState, now, reaped>>

\* An acknowledge that answers by what was delivered.
AckCodeTracked(droneId, command) ==
    IF delivered[droneId] = command THEN 200 ELSE 404

\* The status of the acknowledge response: res.json({ success: true })
AckCode(droneId, command) == 200

\* An acknowledge that refreshes lastSeen of a drone in the registry.
AckDronesTouch(ds, droneId, t) ==
    IF MapHas(ds, droneId)
    THEN MapSet(ds, droneId, [MapGet(ds, droneId) EXCEPT !.lastSeen = t])
    ELSE ds

\* The registry after an acknowledge: the handler reads and writes no drone record
AckDrones(ds, droneId, t) == ds

\* POST /api/drone/ack/:droneId
Ack(droneId, command) ==
    LET ev == Event("command_ack", droneId, command) IN
    /\ drones' = AckDrones(drones, droneId, now)
    /\ published' = <<ev>>
    /\ wsOut' = Broadcast(webClients, readyState, ev, NoClient)
    /\ last' = Reply("ack", droneId, NoClient, AckCode(droneId, command),
                     MapHas(drones, droneId), << >>)
    /\ delivered' = IF delivered[droneId] = command
                    THEN [delivered EXCEPT ![droneId] = Undefined] ELSE delivered
    /\ webClients' = Subscribers(webClients, readyState)
    /\ UNCHANGED <<telemetry, commandQueues, readyState, now, reaped>>

\* A push that puts the command at the head of the queue.
PushFront(queue, e) == <<e>> \o queue

\* queue.push(command)
Push(queue, e) == Append(queue, e)

\* drones.forEach: push the command on the queue of every drone, creating a
\* queue where none is stored
RECURSIVE PushAll(_, _, _)
PushAll(ds, q, e) ==
    IF ds = << >> THEN q
    ELSE LET droneId == Head(ds).id
             q1 == IF ~QHas(q, droneId) THEN QSet(q, droneId, << >>) ELSE q
         IN PushAll(Tail(ds), QSet(q1, droneId, Push(q1[droneId], e)), e)

\* POST /api/command/all
CommandAll(command, priority) ==
    IF Falsy(command)
    THEN /\ last' = Reply("command_all", Undefined, NoClient, 400, FALSE, << >>)
         /\ published' = << >>
         /\ wsOut' = << >>
         /\ UNCHANGED <<telemetry, drones, commandQueues, webClients, readyState, now, delivered, reaped>>
    ELSE LET ev == Event("broadcast_command", Undefined, command) IN
         /\ \A k \in DOMAIN commandQueues : Len(commandQueues[k]) < MaxQueue
         /\ commandQueues' = PushAll(drones, commandQueues, Entry(command, priority))
         /\ published' = <<ev>>
         /\ wsOut' = Broadcast(webClients, readyState, ev, NoClient)
         /\ webClients' = Subscribers(webClients, readyState)
         /\ last' = Reply("command_all", Undefined, NoClient, 200, FALSE, << >>)
         /\ UNCHANGED <<telemetry, drones, readyState, now, delivered, reaped>>

\* ------------------------------------------------------- WebSocket handlers

Message(to, msg) == [to |-> to, msg |-> msg]

\* wss.on('connection'): the socket joins webClients and is sent the initial state
WsConnection(ws) ==
    /\ readyState[ws] = "NONE"
    /\ webClients' = Append(webClients, ws)
    /\ readyState' = [readyState EXCEPT ![ws] = "OPEN"]
    /\ wsOut' = <<Message(ws, Event("init", Undefined, Undefined))>>
    /\ published' = << >>
    /\ last' = Reply("ws_connection", Undefined, ws, 0, FALSE, << >>)
    /\ UNCHANGED <<telemetry, drones, commandQueues, now, delivered, reaped>>

\* data.droneId || 'MINI_SURV_001'
TargetDrone(droneId) == IF Falsy(droneId) THEN DefaultDroneId ELSE droneId

\* The queues after the command branch: a queue is created where none is
\* stored, and the command is pushed on it.  The registry is not consulted.
WsEnqueue(q, droneId, e) ==
    LET q1 == IF ~QHas(q, droneId) THEN QSet(q, droneId, << >>) ELSE q
    IN QSet(q1, droneId, Push(q1[droneId], e))

\* ws.on('message'), data.type === 'command'
WsCommand(ws, droneIdField, command, priority) ==
    LET droneId == TargetDrone(droneIdField)
        existed == MapHas(drones, droneId)
    IN
    /\ readyState[ws] = "OPEN"
    /\ IF Falsy(command)
       THEN /\ wsOut' = <<Message(ws, Event("error", Undefined, Undefined))>>
            /\ published' = << >>
            /\ last' = Reply("ws_command", droneId, ws, 0, existed, << >>)
            /\ UNCHANGED <<telemetry, drones, commandQueues, webClients, readyState, now,
                           delivered, reaped>>
       ELSE LET sent == Event("command_sent", droneId, command) IN
            /\ QHas(commandQueues, droneId) => Len(commandQueues[droneId]) < MaxQueue
            /\ commandQueues' =
                  WsEnqueue(commandQueues, droneId, Entry(command, priority))
            /\ published' = <<sent>>
            /\ wsOut' = <<Message(ws, Event("command_queued", droneId, command))>>
                        \o Broadcast(webClients, readyState, sent, ws)
            /\ webClients' = Subscribers(webClients, readyState)
            /\ last' = Reply("ws_command", droneId, ws, 0, existed, << >>)
            /\ UNCHANGED <<telemetry, drones, readyState, now, delivered, reaped>>

\* ws.on('message'), data.type === 'ping'
WsPing(ws) ==
    /\ readyState[ws] = "OPEN"
    /\ wsOut' = <<Message(ws, Event("pong", Undefined, Undefined))>>
    /\ published' = << >>
    /\ last' = Reply("ws_ping", Undefined, ws, 0, FALSE, << >>)
    /\ UNCHANGED <<telemetry, drones, commandQueues, webClients, readyState, now, delivered, reaped>>

\* The connection goes down: the socket leaves the OPEN state before its
\* 'close' event is handled.
WsDown(ws) ==
    /\ readyState[ws] = "OPEN"
    /\ readyState' = [readyState EXCEPT ![ws] = "CLOSED"]
    /\ wsOut' = << >>
    /\ published' = << >>
    /\ last' = Reply("ws_down", Undefined, ws, 0, FALSE, << >>)
    /\ UNCHANGED <<telemetry, drones, commandQueues, webClients, now, delivered, reaped>>

\* ws.on('close'): webClients.delete(ws)
WsClose(ws) ==
    /\ readyState[ws] = "CLOSED"
    /\ webClients' = LET Keep(c) == c # ws IN SelectSeq(webClients, Keep)
    /\ readyState' = [readyState EXCEPT ![ws] = "NONE"]
    /\ wsOut' = << >>
    /\ published' = << >>
    /\ last' = Reply("ws_close", Undefined, ws, 0, FALSE, << >>)
    /\ UNCHANGED <<telemetry, drones, commandQueues, now, delivered, reaped>>

\* ------------------------------------------------------------ cleanup timer

\* A staleness test that also drops a drone seen exactly the timeout ago.
IsStaleInclusive(drone, t) == t - drone.lastSeen >= Timeout

\* now - drone.lastSeen > timeout
IsStale(drone, t) == t - drone.lastSeen > Timeout

\* The drones the sweep deletes, in the order it visits them.
StaleDrones(ds, t) == LET Stale(d) == IsStale(d, t) IN SelectSeq(ds, Stale)

\* A sweep that leaves the queues of the drones it deletes for later.
SweepQueuesKeep(q, stale) == q

\* commandQueues.delete(droneId) for every drone the sweep deletes
RECURSIVE SweepQueues(_, _)
SweepQueues(q, stale) ==
    IF stale = << >> THEN q ELSE SweepQueues(QDelete(q, Head(stale).id), Tail(stale))

\* drones.delete(droneId) for every drone the sweep deletes
RECURSIVE SweepDrones(_, _)
SweepDrones(ds, stale) ==
    IF stale = << >> THEN ds ELSE SweepDrones(MapDelete(ds, Head(stale).id), Tail(stale))

\* The drone_disconnected events of one sweep, one per deleted drone.
DisconnectedEvents(stale) ==
    [i \in 1..Len(stale) |-> Event("drone_disconnected", stale[i].id, Undefined)]

\* The setInterval callback
Cleanup ==
    LET stale == StaleDrones(drones, now) IN
    /\ drones' = SweepDrones(drones, stale)
    /\ commandQueues' = SweepQueues(commandQueues, stale)
    /\ published' = DisconnectedEvents(stale)
    /\ wsOut' = BroadcastAll(webClients, readyState, published')
    /\ last' = Reply("cleanup", Undefined, NoClient, 0, FALSE, << >>)
    /\ delivered' = [d \in DroneIds |->
                       IF \E i \in 1..Len(stale) : stale[i].id = d
                       THEN Undefined ELSE delivered[d]]
    /\ reaped' = reaped \cup {stale[i].id : i \in 1..Len(stale)}
    /\ webClients' = IF published' = << >> THEN webClients
                     ELSE Subscribers(webClients, readyState)
    /\ UNCHANGED <<telemetry, readyState, now>>

\* Time passes between handlers.
AdvanceClock ==
    /\ now < MaxClock * IntervalMs
    /\ now' = now + IntervalMs
    /\ last' = Reply("idle", Undefined, NoClient, 0, FALSE, << >>)
    /\ published' = << >>
    /\ wsOut' = << >>
    /\ UNCHANGED <<telemetry, drones, commandQueues, webClients, readyState, delivered, reaped>>

\* ---------------------------------------------------------- telemetry store

\* A telemetry sample; receivedAt is the ordinal of its arrival for the drone.
Sample(deviceId, payload, receivedAt) ==
    [deviceId |-> deviceId, payload |-> payload, receivedAt |-> receivedAt]

\* The number of samples recorded for the drone a ring belongs to.
Received(ring) == IF ring = << >> THEN 0 ELSE ring[Len(ring)].receivedAt

\* A ring that grows without bound.
RingAppendUnbounded(ring, s) == Append(ring, s)

\* A ring that, when full, keeps what it holds and drops the new sample.
RingAppendDropNew(ring, s) ==
    IF Len(ring) >= HistoryCapacity THEN ring ELSE Append(ring, s)

\* Append to the ring, evicting the oldest sample when the ring is at capacity.
RingAppend(ring, s) ==
    IF Len(ring) >= HistoryCapacity THEN Append(Tail(ring), s) ELSE Append(ring, s)

\* TelemetryStore.record(deviceId, payload)
TelemetryRecord(deviceId, payload) ==
    IF ~MapHas(drones, deviceId)
    THEN /\ last' = Reply("telemetry", deviceId, NoClient, 404, FALSE, << >>)
         /\ published' = << >>
         /\ wsOut' = << >>
         /\ UNCHANGED <<telemetry, drones, commandQueues, webClients, readyState, now,
                        delivered, reaped>>
    ELSE LET ring == telemetry[deviceId]
             ev == Event("telemetry", deviceId, payload)
         IN
         /\ Received(ring) < MaxSamples
         /\ telemetry' = [telemetry EXCEPT
                             ![deviceId] = RingAppend(ring, Sample(deviceId, payload,
                                                                   Received(ring) + 1))]
         /\ drones' = MapSet(drones, deviceId,
                             [MapGet(drones, deviceId) EXCEPT !.lastSeen = now])
         /\ published' = <<ev>>
         /\ wsOut' = Broadcast(webClients, readyState, ev, NoClient)
         /\ last' = Reply("telemetry", deviceId, NoClient, 200, TRUE, << >>)
         /\ UNCHANGED <<commandQueues, webClients, readyState, now, delivered, reaped>>

\* -------------------------------------------------------------------- Next

\* The commands a set of requests names.
CommandsOf(requests) == {r.command : r \in requests} \ {Undefined}

\* One handler runs, on requests drawn from the given sets.
Handlers(clients, requests, batteries) ==
    \/ \E id \in DroneIds \cup {Undefined} : Register(id)
    \/ \E id \in DroneIds, b \in batteries : Poll(id, b)
    \/ \E id \in DroneIds, c \in CommandsOf(requests) : Ack(id, c)
    \/ \E r \in requests : CommandAll(r.command, r.priority)
    \/ \E ws \in clients : WsConnection(ws)
    \/ \E ws \in clients, id \in DroneIds \cup {Undefined}, r \in requests :
          WsCommand(ws, id, r.command, r.priority)
    \/ \E ws \in clients : WsPing(ws)
    \/ \E ws \in clients : WsDown(ws)
    \/ \E ws \in clients : WsClose(ws)
    \/ Cleanup

\* The fleet over time: two drones, one web client, one command, the clock.
Next ==
    \/ Handlers({"ws1"}, BasicRequests, {<< >>, <<0>>})
    \/ AdvanceClock

Spec == Init /\ [][Next]_vars

\* The fleet over time with the timers running: the clock does not stop
\* short of its bound, and the cleanup timer fires again and again.
NextLive ==
    \/ \E id \in DroneIds : Register(id)
    \/ \E id \in DroneIds : Poll(id, << >>)
    \/ \E id \in DroneIds : Ack(id, "takeoff")
    \/ CommandAll("takeoff", 1)
    \/ WsConnection("ws1")
    \/ \E id \in DroneIds : WsCommand("ws1", id, "takeoff", 1)
    \/ Cleanup
    \/ AdvanceClock

SpecLive == Init /\ [][NextLive]_vars /\ WF_vars(AdvanceClock) /\ WF_vars(Cleanup)

\* Queue order: two drones, one web client, commands of two priorities, all
\* within one instant of the clock.
NextOrder == Handlers({"ws1"}, Requests, {<< >>})

SpecOrder == Init /\ [][NextOrder]_vars

\* The observers: two drones, two web clients, one command, all within one
\* instant of the clock.
NextObservers == Handlers(Clients, BasicRequests, {<< >>})

SpecObservers == Init /\ [][NextObservers]_vars

\* The battery levels a poll body may carry: none, and levels of the valid range.
Batteries == {<< >>, <<0>>, <<50>>, <<100>>}

\* Battery reports: two drones that register and poll with and without a
\* battery level, one web client that sends them a command.
NextBattery ==
    \/ \E id \in DroneIds : Register(id)
    \/ \E id \in DroneIds, b \in Batteries : Poll(id, b)
    \/ WsConnection("ws1")
    \/ \E id \in DroneIds : WsCommand("ws1", id, "takeoff", 1)

SpecBattery == Init /\ [][NextBattery]_vars

\* Command echo: two web clients, each sending its own command, so that the
\* command tells who sent it; two drones that poll.
NextEcho ==
    \/ \E ws \in Clients : WsConnection(ws)
    \/ \E id \in DroneIds : WsCommand("ws1", id, "takeoff", 1)
    \/ \E id \in DroneIds : WsCommand("ws2", id, "land", 1)
    \/ \E id \in DroneIds : Poll(id, << >>)
    \/ \E ws \in Clients : WsDown(ws)
    \/ \E ws \in Clients : WsClose(ws)

SpecEcho == Init /\ [][NextEcho]_vars

\* The telemetry store: two drones that register and send samples.
NextTelemetry ==
    \/ \E id \in DroneIds : Register(id)
    \/ \E id \in DroneIds : TelemetryRecord(id, "sample")
    \/ \E ws \in {"ws1"} : WsConnection(ws)

SpecTelemetry == Init /\ [][NextTelemetry]_vars

\* ---------------------------------------------------------------- typing

TypeOK ==
    /\ DroneKeys(drones) \subseteq DroneIds
    /\ DOMAIN commandQueues \subseteq DroneIds
    /\ now \in 0..(MaxClock * IntervalMs)
    /\ \A k \in DOMAIN commandQueues : Len(commandQueues[k]) <= MaxQueue
    /\ \A d \in DroneIds : Received(telemetry[d]) <= MaxSamples

\* ------------------------------------------------------------- properties

\* The queue stored under an id, << >> when none is.
QueueOf(q, id) == IF QHas(q, id) THEN q[id] ELSE << >>

\* The positions of the registry that hold a record of id.
RecordsOf(id) == {i \in 1..Len(drones) : drones[i].id = id}

\* The messages of a type among the sends of a handler that go to a socket.
SentTo(out, ws, type) == {i \in 1..Len(out) : out[i].to = ws /\ out[i].msg.type = type}

\* The events of a type for an id among the events a handler published.
PublishedFor(events, type, id) ==
    {i \in 1..Len(events) : events[i].type = type /\ events[i].droneId = id}

\* C1: registering a device id never answers an error, also when the id is
\* already registered, and leaves exactly one record for that id; the
\* registry never holds two records for one id.
C1_RegisterIdempotent ==
    /\ \A id \in DroneIds : Cardinality(RecordsOf(id)) <= 1
    /\ (last.op = "register" /\ ~Falsy(last.droneId))
          => (last.code = 200 /\ Cardinality(RecordsOf(last.droneId)) = 1)

\* A second registration of an id has been answered while another drone is
\* registered too.
C1_Witness ==
    /\ last.op = "register"
    /\ last.existed
    /\ last.code = 200
    /\ Len(drones) = 2

\* C2: registering an id that is already in the registry leaves that
\* device's queue of pending commands unchanged.
C2_RegisterKeepsQueue ==
    [][\A id \in DroneIds :
          (last'.op = "register" /\ last'.droneId = id /\ MapHas(drones, id))
             => QueueOf(commandQueues', id) = QueueOf(commandQueues, id)]_vars

\* C3: every device id that has a command queue is present in the registry.
C3_QueuesOnlyForRegistered == DOMAIN commandQueues \subseteq DroneKeys(drones)

\* C4: an observer command addressed to an id that is not in the registry
\* is answered with an error, is not confirmed with command_queued and
\* stores no command for that id.
C4_UnknownDeviceRejected ==
    [][(last'.op = "ws_command" /\ ~last'.existed)
          => /\ SentTo(wsOut', last'.client, "error") # {}
             /\ SentTo(wsOut', last'.client, "command_queued") = {}
             /\ commandQueues' = commandQueues
             /\ drones' = drones]_vars

\* C5: the number of pending commands in any one device's queue is at most
\* the configured cap.
C5_QueueWithinCap ==
    \A id \in DOMAIN commandQueues : Len(commandQueues[id]) <= QueueCap

Overdue(id) ==
    /\ MapHas(drones, id)
    /\ delivered[id] # Undefined
    /\ now - MapGet(drones, id).lastSeen >= RedeliveryTimeout
    /\ QueueOf(commandQueues, id) = << >>

\* C7 as stated: a command returned by a poll and not acknowledged is
\* returned again by a poll of that device once the redelivery timeout has
\* elapsed.
C7_Redelivered ==
    [][\A id \in DroneIds :
          (Overdue(id) /\ last'.op = "poll" /\ last'.droneId = id)
             => (last'.commands # << >> /\ last'.commands[1].command = delivered[id])]_vars

\* C7, amended: a command that a poll has returned is not returned again by
\* a later poll of that device, whether or not the redelivery timeout has
\* elapsed and whether or not the device acknowledges it.  A poll takes the
\* command it returns out of the queue, only an enqueue puts a command in a
\* queue, and a poll of a device with an unacknowledged command and an empty
\* queue returns no command.
C7_AtMostOnce ==
    [][\A id \in DroneIds :
          /\ (last'.op = "poll" /\ last'.droneId = id /\ last'.commands # << >>)
                => Len(QueueOf(commandQueues', id)) = Len(QueueOf(commandQueues, id)) - 1
          /\ Len(QueueOf(commandQueues', id)) > Len(QueueOf(commandQueues, id))
                => last'.op \in {"ws_command", "command_all"}
          /\ (MapHas(drones, id) /\ delivered[id] # Undefined
                /\ QueueOf(commandQueues, id) = << >>
                /\ last'.op = "poll" /\ last'.droneId = id)
                => last'.commands = << >>]_vars

\* A cleanup tick has run while a registered device holds an unacknowledged
\* command whose redelivery timeout has passed, and the command is not back
\* in the queue.
C7_Witness ==
    /\ last.op = "cleanup"
    /\ \E id \in DroneIds : Overdue(id)

\* C8 as stated: an acknowledge for a command that was not delivered to the
\* device, or that the device has acknowledged already, does not report
\* success.
C8_AckOnlyDelivered ==
    [][(last'.op = "ack" /\ delivered[last'.droneId] # published'[1].command)
          => last'.code # 200]_vars

\* C8, amended: acknowledge reports success for every request, also for a
\* command that was never delivered to the device or that was acknowledged
\* before, and changes neither the registry nor any queue; so every one of
\* any number of repeated acks succeeds.
C8_AckAlwaysSucceeds ==
    [][last'.op = "ack"
          => /\ last'.code = 200
             /\ drones' = drones
             /\ commandQueues' = commandQueues]_vars

\* An acknowledge has been answered with success for a device that is not
\* in the registry, to which no unacknowledged command is out.
C8_Witness ==
    /\ last.op = "ack"
    /\ last.code = 200
    /\ ~last.existed
    /\ delivered[last.droneId] = Undefined

\* C9: each cleanup tick removes exactly the devices whose now - lastSeen is
\* strictly greater than the stale timeout, all of them in that tick and
\* together with their queues, keeps every other device and queue as it was,
\* and publishes one drone_disconnected event per removed device and none
\* for a device it keeps.
C9_ReaperRemovesExactlyStale ==
    [][last'.op = "cleanup"
          => LET gone == {id \in DroneKeys(drones) :
                             now - MapGet(drones, id).lastSeen > Timeout}
             IN /\ DroneKeys(drones') = DroneKeys(drones) \ gone
                /\ \A id \in DroneKeys(drones') : MapGet(drones', id) = MapGet(drones, id)
                /\ DOMAIN commandQueues' = (DOMAIN commandQueues) \ gone
                /\ \A id \in DOMAIN commandQueues' : commandQueues'[id] = commandQueues[id]
                /\ Len(published') = Cardinality(gone)
                /\ \A id \in DroneIds :
                      Cardinality(PublishedFor(published', "drone_disconnected", id))
                         = IF id \in gone THEN 1 ELSE 0]_vars

\* A cleanup tick has removed a device and kept one that was last seen
\* exactly the stale timeout ago.
C9_Witness ==
    /\ last.op = "cleanup"
    /\ published # << >>
    /\ \E i \in 1..Len(drones) : now - drones[i].lastSeen = Timeout

\* C10: after the cleanup timer has removed a device, only a poll or a
\* register re-creates its record; the removal takes the device's queue with
\* it, and a poll for an id that is not in the registry creates a record
\* with an empty queue and returns no command, so no command that was
\* pending before the removal is returned after it.
C10_FreshAfterRemoval ==
    [][\A id \in DroneIds :
          /\ (~MapHas(drones, id) /\ MapHas(drones', id)) => last'.op \in {"poll", "register"}
          /\ (last'.op = "cleanup" /\ MapHas(drones, id) /\ ~MapHas(drones', id))
                => ~QHas(commandQueues', id)
          /\ (last'.op = "poll" /\ last'.droneId = id /\ ~MapHas(drones, id))
                => /\ MapHas(drones', id)
                   /\ MapGet(drones', id).lastSeen = now
                   /\ QHas(commandQueues', id)
                   /\ commandQueues'[id] = << >>
                   /\ last'.commands = << >>]_vars

\* A poll has re-created, with an empty queue and without returning a
\* command, a device that the cleanup timer had removed.
C10_Witness ==
    /\ last.op = "poll"
    /\ ~last.existed
    /\ last.droneId \in reaped
    /\ last.commands = << >>
    /\ commandQueues[last.droneId] = << >>

\* C11 as stated: an acknowledge from a device in the registry refreshes that
\* device's lastSeen.
C11_AckTouches ==
    [][\A id \in DroneIds :
          (last'.op = "ack" /\ last'.droneId = id /\ MapHas(drones, id))
             => /\ MapHas(drones', id)
                /\ MapGet(drones', id).lastSeen = now]_vars

\* C11: an acknowledge is not a touch.  It leaves lastSeen of every device as
\* it was; only a poll or a register for a device changes that device's
\* lastSeen; so a device that acknowledges but neither polls nor registers
\* is removed by the first cleanup that runs more than the stale timeout
\* after its last poll or register.
C11_AckLeavesLastSeen ==
    [][\A id \in DroneIds :
          MapHas(drones, id) =>
             /\ last'.op = "ack"
                   => /\ MapHas(drones', id)
                      /\ MapGet(drones', id).lastSeen = MapGet(drones, id).lastSeen
             /\ (MapHas(drones', id)
                   /\ MapGet(drones', id).lastSeen # MapGet(drones, id).lastSeen)
                   => /\ last'.op \in {"poll", "register"}
                      /\ last'.droneId = id
             /\ (last'.op = "cleanup" /\ now - MapGet(drones, id).lastSeen > Timeout)
                   => ~MapHas(drones', id)]_vars

\* A device in the registry has just acknowledged a command, more than the
\* stale timeout after it was last seen: its lastSeen is still the old one.
C11_Witness ==
    /\ last.op = "ack"
    /\ last.existed
    /\ MapHas(drones, last.droneId)
    /\ now - MapGet(drones, last.droneId).lastSeen > Timeout

\* The sends of a handler that carry an event to a socket.
Deliveries(out, ws, ev) == {i \in 1..Len(out) : out[i].to = ws /\ out[i].msg = ev}

\* The members of webClients.
Members(clients) == {clients[i] : i \in 1..Len(clients)}

\* The socket the last handler excluded from its broadcast: the sender of a
\* WebSocket command, and none in every other handler.
ExcludedWs == IF last.op = "ws_command" THEN last.client ELSE NoClient

\* C12: every event a handler passes to broadcastToWebClients is sent exactly
\* once to every socket of webClients that is open and is not the excluded
\* socket, and to no other socket; a socket of webClients that is not open
\* keeps the event from no open socket, and the handler that broadcasts
\* still answers success.
C12_PublishDelivers ==
    /\ \A i \in 1..Len(published), c \in Clients :
          Cardinality(Deliveries(wsOut, c, published[i])) =
             IF c \in Members(webClients) /\ readyState[c] = "OPEN" /\ c # ExcludedWs
             THEN 1 ELSE 0
    /\ (published # << >> /\ last.op \in {"register", "poll", "ack", "command_all"})
          => last.code = 200
    /\ (published # << >> /\ last.op = "ws_command")
          => /\ SentTo(wsOut, last.client, "command_queued") # {}
             /\ SentTo(wsOut, last.client, "error") = {}

\* An HTTP handler has broadcast an event while the first socket of
\* webClients was closed and the second open: the second was sent the event
\* and the handler answered 200.
C12_Witness ==
    /\ Len(webClients) = 2
    /\ readyState[webClients[1]] = "CLOSED"
    /\ readyState[webClients[2]] = "OPEN"
    /\ last.op \in {"register", "poll", "ack", "command_all"}
    /\ last.code = 200
    /\ published # << >>
    /\ Deliveries(wsOut, webClients[2], published[1]) # {}
    /\ Deliveries(wsOut, webClients[1], published[1]) = {}

RejectedStep(ws) ==
    /\ drones' = drones
    /\ commandQueues' = commandQueues
    /\ webClients' = webClients
    /\ published' = << >>
    /\ \A i \in 1..Len(wsOut') : wsOut'[i].to = ws

\* C14: a register without drone_id is answered 400; a command to all is
\* answered 200 only when it carries a command, and 400 otherwise; a
\* WebSocket command is answered command_queued only when it carries a
\* command, and by an error message otherwise.  Each of the three error
\* answers leaves the registry, every queue and webClients as they were and
\* broadcasts no event.
C14_MissingFieldRejected ==
    [][/\ (last'.op = "register" /\ last'.droneId = Undefined)
             => last'.code = 400 /\ RejectedStep(NoClient)
       /\ last'.op = "register" => (last'.code = 400 <=> last'.droneId = Undefined)
       /\ last'.op = "command_all"
             => \/ /\ last'.code = 200
                   /\ Len(published') = 1
                   /\ published'[1].type = "broadcast_command"
                   /\ published'[1].command # Undefined
                \/ last'.code = 400 /\ RejectedStep(NoClient)
       /\ last'.op = "ws_command"
             => \/ /\ Cardinality(SentTo(wsOut', last'.client, "command_queued")) = 1
                   /\ SentTo(wsOut', last'.client, "error") = {}
                   /\ \A i \in SentTo(wsOut', last'.client, "command_queued") :
                         wsOut'[i].msg.command # Undefined
                \/ /\ Cardinality(SentTo(wsOut', last'.client, "error")) = 1
                   /\ SentTo(wsOut', last'.client, "command_queued") = {}
                   /\ RejectedStep(last'.client)]_vars

\* A WebSocket command without a command has been answered by an error
\* message while a drone was registered and a command was queued.
C14_Witness ==
    /\ last.op = "ws_command"
    /\ SentTo(wsOut, last.client, "error") # {}
    /\ published = << >>
    /\ drones # << >>
    /\ \E k \in DOMAIN commandQueues : commandQueues[k] # << >>

\* C15: a poll always answers 200.  A poll for an id that is not in the
\* registry adds the id with an empty queue, broadcasts one drone_connected
\* event for it and nothing else, and returns no command.  A poll for an id
\* that is in the registry broadcasts no drone_connected event and keeps
\* the id's queue: the queue after the poll is the queue before it, less the
\* command the poll returned.
C15_PollAutoRegisters ==
    [][\A id \in DroneIds :
          (last'.op = "poll" /\ last'.droneId = id) =>
             /\ last'.code = 200
             /\ MapHas(drones', id)
             /\ ~MapHas(drones, id)
                   => /\ QHas(commandQueues', id)
                      /\ commandQueues'[id] = << >>
                      /\ Cardinality(PublishedFor(published', "drone_connected", id)) = 1
                      /\ Len(published') = 1
                      /\ last'.commands = << >>
             /\ MapHas(drones, id)
                   => /\ \A e \in DroneIds : PublishedFor(published', "drone_connected", e) = {}
                      /\ QueueOf(commandQueues, id) =
                            last'.commands \o QueueOf(commandQueues', id)]_vars

\* A poll has added an id to the registry, with an empty queue and one
\* drone_connected event, while another drone was registered with a command
\* in its queue.
C15_Witness ==
    /\ last.op = "poll"
    /\ ~last.existed
    /\ last.code = 200
    /\ last.commands = << >>
    /\ published = <<Event("drone_connected", last.droneId, Undefined)>>
    /\ commandQueues[last.droneId] = << >>
    /\ \E k \in DOMAIN commandQueues : k # last.droneId /\ commandQueues[k] # << >>
    /\ Len(drones) = 2

\* C16: the handlers that work on one id run one after the other, in any
\* order, and none undoes the enqueue of another: a poll for an id returns
\* at most the head of the queue stored under that id and leaves every other
\* command of that queue in place, so no two polls return one queued
\* command and no command queued before a poll is lost by it; an enqueue
\* adds its command behind the commands already queued.
C16_NoLostEnqueue ==
    [][\A id \in DroneIds :
          /\ (last'.op = "poll" /\ last'.droneId = id)
                => /\ Len(last'.commands) <= 1
                   /\ QueueOf(commandQueues, id) =
                         last'.commands \o QueueOf(commandQueues', id)
          /\ (last'.op = "ws_command" /\ last'.droneId = id /\ published' # << >>)
                => /\ Len(QueueOf(commandQueues', id)) = Len(QueueOf(commandQueues, id)) + 1
                   /\ SubSeq(QueueOf(commandQueues', id), 1, Len(QueueOf(commandQueues, id)))
                         = QueueOf(commandQueues, id)
          /\ (last'.op = "command_all" /\ last'.code = 200 /\ MapHas(drones, id))
                => /\ Len(QueueOf(commandQueues', id)) = Len(QueueOf(commandQueues, id)) + 1
                   /\ SubSeq(QueueOf(commandQueues', id), 1, Len(QueueOf(commandQueues, id)))
                         = QueueOf(commandQueues, id)]_vars

\* C17: a run of the cleanup timer is one step, so no two runs overlap and
\* no handler runs in the middle of one: in the state a run leaves behind,
\* which is the state the next handler starts from, every drone the run has
\* announced as disconnected is gone from the registry and so is its queue.
C17_TickWhole ==
    last.op = "cleanup" =>
       \A i \in 1..Len(published) :
          /\ published[i].type = "drone_disconnected"
          /\ ~MapHas(drones, published[i].droneId)
          /\ ~QHas(commandQueues, published[i].droneId)

\* One run of the cleanup timer has removed two drones, records and queues.
C17_Witness ==
    /\ last.op = "cleanup"
    /\ Len(published) = 2
    /\ drones = << >>
    /\ commandQueues = EmptyMap
    /\ reaped = DroneIds

\* C18: a telemetry ring never holds more samples than its capacity.  When
\* n samples have been recorded for a drone its ring holds the last
\* min(n, capacity) of them, in the order they arrived; every record puts
\* the new sample at the end and, when the ring was full, evicts the oldest
\* sample and no other.
C18_RingBounded ==
    /\ [](\A d \in DroneIds :
             LET ring == telemetry[d]
                 n == Received(ring)
             IN /\ Len(ring) <= HistoryCapacity
                /\ Len(ring) = IF n < HistoryCapacity THEN n ELSE HistoryCapacity
                /\ \A i \in 1..Len(ring) : ring[i].receivedAt = n - Len(ring) + i)
    /\ [][\A d \in DroneIds :
             (last'.op = "telemetry" /\ last'.code = 200 /\ last'.droneId = d) =>
                LET old == telemetry[d]
                    new == telemetry'[d]
                IN /\ new # << >>
                   /\ new[Len(new)].receivedAt = Received(old) + 1
                   /\ IF Len(old) < HistoryCapacity
                      THEN SubSeq(new, 1, Len(new) - 1) = old
                      ELSE SubSeq(new, 1, Len(new) - 1) = Tail(old)]_vars

\* More samples than the capacity have been recorded for a drone: its ring
\* is full and its oldest samples are gone.
C18_Witness ==
    /\ last.op = "telemetry"
    /\ last.code = 200
    /\ Len(telemetry[last.droneId]) = HistoryCapacity
    /\ Received(telemetry[last.droneId]) > HistoryCapacity + 1
    /\ telemetry[last.droneId][1].receivedAt > 2

\* The drone is in the registry, and was last seen long enough before the
\* end of the clock for a cleanup to find it stale.
Reapable(id) ==
    /\ MapHas(drones, id)
    /\ MapGet(drones, id).lastSeen + Timeout < MaxClock * IntervalMs

\* The last handler was a poll or a register for the drone.
Touched(id) == last.op \in {"poll", "register"} /\ last.droneId = id

\* C19: while the cleanup timer keeps firing, a drone in the registry is
\* removed, record and queue, unless a poll or a register for it comes
\* first; commands sent to it and acknowledges from it do not keep it.  No
\* step removes a drone that was seen within the stale timeout, so a drone
\* that polls in every such window stays.
C19_StaleEventuallyReaped ==
    /\ \A id \in DroneIds :
          Reapable(id) ~> (\/ ~MapHas(drones, id) /\ ~QHas(commandQueues, id)
                           \/ Touched(id))
    /\ [][\A id \in DroneIds :
             (MapHas(drones, id) /\ now - MapGet(drones, id).lastSeen <= Timeout)
                => MapHas(drones', id)]_vars

\* One run of the cleanup timer has removed a drone, record and queue, and
\* kept another drone that was seen at that instant.
C19_Witness ==
    /\ last.op = "cleanup"
    /\ \E i \in 1..Len(published) :
          /\ ~MapHas(drones, published[i].droneId)
          /\ ~QHas(commandQueues, published[i].droneId)
    /\ \E id \in DroneIds : MapHas(drones, id) /\ now - MapGet(drones, id).lastSeen = 0

\* C20: a poll for an id under which commands are queued returns the head
\* of that queue and nothing else, removes it, leaves the rest of the queue
\* in order, broadcasts one command_sent event for that command, and
\* changes no other queue; a poll for an id under which nothing is queued
\* returns no command, changes the content of no queue and broadcasts no
\* command_sent event.
C20_PollTakesHead ==
    [][\A id \in DroneIds :
          (last'.op = "poll" /\ last'.droneId = id) =>
             LET q == QueueOf(commandQueues, id) IN
             /\ \A e \in DroneIds \ {id} :
                   QueueOf(commandQueues', e) = QueueOf(commandQueues, e)
             /\ IF q # << >>
                THEN /\ last'.commands = <<Head(q)>>
                     /\ QueueOf(commandQueues', id) = Tail(q)
                     /\ Cardinality(PublishedFor(published', "command_sent", id)) = 1
                     /\ \A i \in PublishedFor(published', "command_sent", id) :
                           published'[i].command = Head(q).command
                ELSE /\ last'.commands = << >>
                     /\ QueueOf(commandQueues', id) = << >>
                     /\ PublishedFor(published', "command_sent", id) = {}]_vars

\* C21: a poll whose body carries a battery level leaves exactly that level
\* in the drone's record, for every level from 0 to 100, whether the poll
\* has added the drone or found it in the registry.
C21_BatteryStored ==
    [][\A id \in DroneIds, b \in Batteries \ {<< >>} :
          Poll(id, b) => /\ MapHas(drones', id)
                         /\ MapGet(drones', id).battery = b[1]]_vars

\* The web client that sends a command, where each client sends its own.
IssuerOf(command) == IF command = "takeoff" THEN "ws1" ELSE "ws2"

\* C22 as stated: the web client that sent a command is never sent a
\* command_sent event for that command, neither when the command is
\* enqueued nor when a poll hands it to the drone.
C22_IssuerNeverEchoed ==
    \A i \in 1..Len(wsOut) :
       wsOut[i].msg.type = "command_sent" => wsOut[i].to # IssuerOf(wsOut[i].msg.command)

\* C22: the handler that enqueues a command sends the client that sent it
\* one command_queued message and no command_sent event, and sends the
\* command_sent event to every other open client.  The poll that hands the
\* command to the drone broadcasts command_sent to every open client, the
\* one that sent the command among them.
C22_EchoOnlyAtPoll ==
    /\ last.op = "ws_command" /\ published # << >>
          => /\ Cardinality(SentTo(wsOut, last.client, "command_queued")) = 1
             /\ SentTo(wsOut, last.client, "command_sent") = {}
             /\ \A c \in Members(webClients) \ {last.client} :
                   readyState[c] = "OPEN"
                      => Cardinality(SentTo(wsOut, c, "command_sent")) = 1
    /\ last.op = "poll" /\ last.commands # << >>
          => \A c \in Members(webClients) :
                Cardinality(SentTo(wsOut, c, "command_sent")) =
                   IF readyState[c] = "OPEN" THEN 1 ELSE 0

\* A poll has handed a drone a command, and the open client that sent the
\* command has been sent the command_sent event of the poll.
C22_Witness ==
    /\ last.op = "poll"
    /\ last.commands # << >>
    /\ readyState[IssuerOf(last.commands[1].command)] = "OPEN"
    /\ \E i \in 1..Len(wsOut) :
          /\ wsOut[i].to = IssuerOf(last.commands[1].command)
          /\ wsOut[i].msg = Event("command_sent", last.droneId, last.commands[1].command)

\* C23: a command that is in a queue stays there, in its place, until a poll
\* for that id returns it or the cleanup timer removes the drone: after any
\* step but a cleanup, the queue stored under an id before the step is the
\* commands the step returned to that drone, followed by a prefix of the
\* queue stored after it.  Neither a register, nor the auto-registration of
\* a poll, nor an acknowledge, nor an enqueue discards a queued command, so
\* a drone that keeps polling is handed every command accepted for it.
C23_AcceptedNeverDiscarded ==
    [][\A id \in DroneIds :
          last'.op # "cleanup" =>
             LET q == QueueOf(commandQueues, id)
                 r == QueueOf(commandQueues', id)
                 returned == IF last'.op = "poll" /\ last'.droneId = id
                             THEN last'.commands ELSE << >>
             IN /\ Len(q) <= Len(returned) + Len(r)
                /\ q = returned \o SubSeq(r, 1, Len(q) - Len(returned))]_vars

\* The commands the last step returned to a drone.
ReturnedTo(id) == IF last'.op = "poll" /\ last'.droneId = id THEN Len(last'.commands) ELSE 0

\* The commands the last step enqueued for a drone.
EnqueuedFor(id) ==
    IF \/ last'.op = "ws_command" /\ last'.droneId = id /\ published' # << >>
       \/ last'.op = "command_all" /\ last'.code = 200 /\ MapHas(drones, id)
    THEN 1 ELSE 0

\* C24: in every step, what a queue holds after the step and what the step
\* returned to the drone is together no more than what the queue held
\* before and what the step enqueued; so over any run a drone is returned
\* no more commands than were enqueued for it.  The command a poll returns
\* is the head of the queue and is gone from the queue after the poll, and
\* an acknowledge, sent or not, changes no queue.
C24_ReturnedOnce ==
    [][\A id \in DroneIds :
          LET q == QueueOf(commandQueues, id)
              r == QueueOf(commandQueues', id)
          IN /\ Len(r) + ReturnedTo(id) <= Len(q) + EnqueuedFor(id)
             /\ ReturnedTo(id) <= 1
             /\ ReturnedTo(id) = 1 => /\ last'.commands = <<Head(q)>>
                                      /\ r = Tail(q)
             /\ last'.op = "ack" => r = q]_vars

\* A poll has returned a command to a drone while a second command of the
\* same name, enqueued on its own, is still in the drone's queue.
C24_Witness ==
    /\ last.op = "poll"
    /\ last.commands # << >>
    /\ QueueOf(commandQueues, last.droneId) # << >>
    /\ QueueOf(commandQueues, last.droneId)[1].command = last.commands[1].command

\* C25: a command to all that carries a command is answered 200 and puts
\* that command once at the tail of the queue of every drone in the
\* registry; it leaves the queue stored under any other id as it is and
\* creates none, and it changes no drone record.  With an empty registry it
\* changes neither the registry nor any queue.
C25_CommandAllAppends ==
    [][(last'.op = "command_all" /\ last'.code = 200) =>
          /\ drones' = drones
          /\ Len(published') = 1
          /\ published'[1].command # Undefined
          /\ drones = << >> => commandQueues' = commandQueues
          /\ \A id \in DroneIds :
                LET q == QueueOf(commandQueues, id)
                    r == QueueOf(commandQueues', id)
                IN IF MapHas(drones, id)
                   THEN /\ Len(r) = Len(q) + 1
                        /\ SubSeq(r, 1, Len(q)) = q
                        /\ r[Len(r)].command = published'[1].command
                   ELSE /\ QHas(commandQueues', id) <=> QHas(commandQueues, id)
                        /\ r = q]_vars

\* A command to all has put its command behind a different command in the
\* queue of the one registered drone, and has left alone the queue stored
\* under an id that is not in the registry.
C25_Witness ==
    /\ last.op = "command_all"
    /\ last.code = 200
    /\ Len(drones) = 1
    /\ \E id \in DroneIds :
          /\ MapHas(drones, id)
          /\ Len(QueueOf(commandQueues, id)) = 2
          /\ commandQueues[id][1].command # commandQueues[id][2].command
          /\ commandQueues[id][2].command = published[1].command
    /\ \E id \in DroneIds :
          /\ ~MapHas(drones, id)
          /\ QueueOf(commandQueues, id) # << >>
          /\ \A i \in 1..Len(commandQueues[id]) :
                commandQueues[id][i].command # published[1].command

====
